---- MODULE Spec2Model ----
(***************************************************************************)
(* A model of qso/problem/feature_selection.py (objective_matrix,          *)
(* qubo_hamiltonian, feature_selection_ansatz, FeatureSelectionProblem)    *)
(* and of qso/plot/runs.py (ExperimentRun).                                *)
(*                                                                         *)
(* Floating-point numbers are modelled as exact rationals plus NaN; arrays *)
(* as a shape and a row-major sequence of values; indices are 0-based as   *)
(* in the source.                                                          *)
(***************************************************************************)
EXTENDS Integers, Sequences, FiniteSets, TLC

VARIABLES
    qubo,       \* the last qubo_hamiltonian call: its argument, locals, result
    ansatz,     \* what feature_selection_ansatz returned (or "none")
    circuit,    \* the last state_circuit call: its argument, outcome, queued ops
    prob,       \* the FeatureSelectionProblem instances
    run,        \* the ExperimentRun (or the failure of its constructor)
    axis        \* the last get_x_axis call: its argument and outcome

vars == <<qubo, ansatz, circuit, prob, run, axis>>

(***************************************************************************)
(* Bounds of the model.                                                    *)
(***************************************************************************)
MaxDim == 2         \* objective matrices have 1..MaxDim rows and columns
MaxVar == 2         \* n_var in 1..MaxVar
MaxLayers == 2      \* n_layers in 0..MaxLayers
MaxSeed == 3        \* initial keys 0..MaxSeed
KeyMod == 31        \* keys live in 0..KeyMod-1
MaxCalls == 3       \* sample_hamiltonian calls per instance
MaxIter == 3        \* iterations per run log
MaxStrLen == 3      \* length of a params string

(***************************************************************************)
(* Numbers: exact rationals in lowest terms, and NaN.                      *)
(***************************************************************************)
Abs(x) == IF x < 0 THEN -x ELSE x

Min(a, b) == IF a < b THEN a ELSE b

RECURSIVE GCD(_, _)
GCD(a, b) == IF b = 0 THEN a ELSE GCD(b, a % b)

NaN == [nan |-> TRUE, num |-> 0, den |-> 1]

Rat(n, d) ==
    LET g == GCD(Abs(n), d)
    IN  [nan |-> FALSE, num |-> n \div g, den |-> d \div g]

F(n) == Rat(n, 1)

RAdd(a, b) ==
    IF a.nan \/ b.nan THEN NaN
    ELSE Rat(a.num * b.den + b.num * a.den, a.den * b.den)

RNeg(a) == IF a.nan THEN NaN ELSE Rat(-a.num, a.den)

RSub(a, b) == RAdd(a, RNeg(b))

RMul(a, b) ==
    IF a.nan \/ b.nan THEN NaN ELSE Rat(a.num * b.num, a.den * b.den)

\* IEEE division; the only division by zero the model meets is 0/0 (a
\* covariance is zero whenever one of its variances is).
RDiv(a, b) ==
    IF a.nan \/ b.nan \/ b.num = 0 THEN NaN
    ELSE IF b.num > 0 THEN Rat(a.num * b.den, a.den * b.num)
    ELSE Rat(-(a.num * b.den), a.den * (-b.num))

RAbs(a) == IF a.nan THEN NaN ELSE Rat(Abs(a.num), a.den)

ISqrt(n) == CHOOSE r \in 0..n : r * r = n

\* Square root of a rational that is a perfect square.
RSqrt(a) == IF a.nan THEN NaN ELSE Rat(ISqrt(a.num), ISqrt(a.den))

RECURSIVE RSum(_)
RSum(s) == IF s = <<>> THEN F(0) ELSE RAdd(Head(s), RSum(Tail(s)))

(***************************************************************************)
(* Arrays.                                                                 *)
(***************************************************************************)
Array(shape, flat) == [shape |-> shape, flat |-> flat]

ndim(a) == Len(a.shape)

\* a[i, j] of a 2-D array and a[i] of a 1-D array, 0-based. Reading a jax
\* array past its end does not fail: the index is clamped to the last one.
At2(a, i, j) ==
    a.flat[Min(i, a.shape[1] - 1) * a.shape[2] + Min(j, a.shape[2] - 1) + 1]

At1(a, i) == a.flat[Min(i, a.shape[1] - 1) + 1]

\* qso.utils.validation.check_ndarray(name, array, shape): fails with a
\* descriptive error when the array's shape is not the expected one.
check_ndarray(array, shape) == array.shape = shape

(***************************************************************************)
(* qubo_hamiltonian                                                        *)
(***************************************************************************)
\* j = objective / 4.
qubo_j(objective) ==
    Array(objective.shape,
          [i \in 1..Len(objective.flat) |-> RDiv(objective.flat[i], F(4))])

\* h = -objective.sum(axis=0) / 2.
qubo_h(objective) ==
    LET rows == objective.shape[1]
        cols == objective.shape[2]
        colsum(c) == RSum([r \in 1..rows |-> At2(objective, r - 1, c)])
    IN  Array(<<cols>>,
              [c \in 1..cols |-> RDiv(RNeg(colsum(c - 1)), F(2))])

\* The shape check_ndarray is asked for: n = objective.shape[0]; (n, n).
qubo_expected_shape_any(objective) == objective.shape

qubo_expected_shape(objective) ==
    LET n == objective.shape[0 + 1] IN <<n, n>>

\* One pass of the inner loop "for n in range(n)": range(bound) is fixed when
\* the loop starts, and the loop variable is the function's own n.
RECURSIVE qubo_inner(_, _, _, _, _)
qubo_inner(j, h, m, n, bound) ==
    IF n >= bound THEN <<>>
    ELSE <<IF m # n
           THEN [coeff |-> At2(j, m, n), term |-> <<m, n>>]
           ELSE [coeff |-> At1(h, m), term |-> <<m>>]>>
         \o qubo_inner(j, h, m, n + 1, bound)

\* The outer loop "for m in range(n)": range(n) is fixed at n0 when it starts;
\* each inner loop runs over range(n) for the n the previous inner loop left
\* behind (its last value, bound - 1, or n unchanged when it ran zero times).
RECURSIVE qubo_outer(_, _, _, _, _)
qubo_outer(j, h, m, n0, n) ==
    IF m >= n0 THEN <<>>
    ELSE qubo_inner(j, h, m, 0, n)
         \o qubo_outer(j, h, m + 1, n0, IF n > 0 THEN n - 1 ELSE n)

\* The wires a term acts on: PauliZ(m) @ PauliZ(n) and PauliZ(n) @ PauliZ(m)
\* are the same operator.
Wires(term) == {term[i] : i \in 1..Len(term)}

\* qml.Hamiltonian(coeffs, terms).simplify(): like terms are summed and terms
\* whose coefficient is zero are dropped.
simplify(emitted) ==
    LET ops == {Wires(emitted[i].term) : i \in 1..Len(emitted)}
        RECURSIVE total(_, _)
        total(w, i) ==
            IF i > Len(emitted) THEN F(0)
            ELSE IF Wires(emitted[i].term) = w
                 THEN RAdd(emitted[i].coeff, total(w, i + 1))
                 ELSE total(w, i + 1)
    IN  {<<w, total(w, 1)>> : w \in {v \in ops : total(v, 1) # F(0)}}

qubo_hamiltonian(objective) ==
    LET j == qubo_j(objective)
        h == qubo_h(objective)
        n == objective.shape[0 + 1]
    IN  IF ~check_ndarray(objective, qubo_expected_shape(objective))
        THEN [objective |-> objective, status |-> "shape_error",
              emitted |-> <<>>, hamiltonian |-> {}]
        ELSE LET emitted == qubo_outer(j, h, 0, n, n)
             IN  [objective |-> objective, status |-> "ok",
                  emitted |-> emitted, hamiltonian |-> simplify(emitted)]

QuboIdle ==
    [objective |-> Array(<<0, 0>>, <<>>), status |-> "idle",
     emitted |-> <<>>, hamiltonian |-> {}]

\* The values an entry of an objective matrix takes in the model.
EntryValues == {F(0), F(1), F(2)}

\* The 2-D objective matrices the model calls qubo_hamiltonian with: every
\* r x c matrix of these entries, square or not.
Objectives ==
    UNION {{Array(<<r, c>>, flat) : flat \in [1..(r * c) -> EntryValues]} :
           <<r, c>> \in (1..MaxDim) \X (1..MaxDim)}

CallQuboHamiltonian ==
    /\ qubo.status = "idle"
    /\ \E objective \in Objectives : qubo' = qubo_hamiltonian(objective)
    /\ UNCHANGED <<ansatz, circuit, prob, run, axis>>

(***************************************************************************)
(* feature_selection_ansatz                                                *)
(***************************************************************************)
trotter_steps == 5

\* pennylane.qaoa.x_mixer(range(n_var)): the sum of PauliX over the wires.
x_mixer(n_var) == [kind |-> "x_mixer", wires |-> 0..(n_var - 1)]

\* qso.utils.ansatz.hamiltonian_ansatz(params, single, double, n_var): the
\* problem Hamiltonian over Pauli-Z operators that the entries of params
\* parameterize; it takes exactly 2 * n_var - 1 of them.
hamiltonian_ansatz(params, single, double, n_var) ==
    [ok |-> Len(params) = 2 * n_var - 1,
     hamiltonian |-> [kind |-> "hamiltonian_ansatz", params |-> params,
                      single |-> single, double |-> double, n_var |-> n_var]]

\* The count the builder returns: 2 * n_layers + 2 * n_var - 1.
param_count(n_var, n_layers) == 2 * n_layers + 2 * n_var - 1

feature_selection_ansatz(n_var, n_layers) ==
    [status |-> "built", n_var |-> n_var, n_layers |-> n_layers,
     x_hamiltonian |-> x_mixer(n_var),
     param_count |-> param_count(n_var, n_layers)]

\* params[:2 * n_layers]: a slice never fails, it stops at the end.
times_slice(params, n_layers) ==
    SubSeq(params, 1, Min(2 * n_layers, Len(params)))

\* params[2 * n_layers:]
params_slice(params, n_layers) ==
    SubSeq(params, 2 * n_layers + 1, Len(params))

\* .reshape(n_layers, 2): fails unless there are n_layers * 2 entries; row i
\* is entries 2i and 2i + 1.
reshape_ok(flat, rows, cols) == Len(flat) = rows * cols

times_row_strided(head, n_layers, i) ==
    <<head[i + 1], head[n_layers + i + 1]>>

times_row(head, n_layers, i) ==
    LET times == Array(<<n_layers, 2>>, head)
    IN  <<At2(times, i, 0), At2(times, i, 1)>>

\* qaoa_layer(times, params): the problem evolution, then the mixer.
qaoa_layer(a, times, params) ==
    LET problem == hamiltonian_ansatz(params, "z", "z", a.n_var)
    IN  [ok |-> problem.ok,
         ops |-> <<[op |-> "ApproxTimeEvolution",
                    hamiltonian |-> problem.hamiltonian, time |-> times[1],
                    n |-> trotter_steps],
                   [op |-> "CommutingEvolution",
                    hamiltonian |-> a.x_hamiltonian, time |-> times[2]]>>]

\* qml.layer(qaoa_layer, n_layers, times, params=params): layer i is called
\* with times[i] and the keyword arguments as they are, for i = 0, 1, ...;
\* with a depth of 0 the template is never called.
RECURSIVE qml_layer(_, _, _, _, _)
qml_layer(a, depth, i, head, params) ==
    IF i >= depth THEN [ok |-> TRUE, ops |-> <<>>]
    ELSE LET one == qaoa_layer(a, times_row(head, depth, i), params)
         IN  IF ~one.ok THEN [ok |-> FALSE, ops |-> <<>>]
             ELSE LET more == qml_layer(a, depth, i + 1, head, params)
                  IN  [ok |-> more.ok, ops |-> one.ops \o more.ops]

\* for wire in range(n_var): PauliX(wire); Hadamard(wire)
RECURSIVE prepare(_, _)
prepare(wire, n_var) ==
    IF wire >= n_var THEN <<>>
    ELSE <<[op |-> "PauliX", wire |-> wire],
           [op |-> "Hadamard", wire |-> wire]>> \o prepare(wire + 1, n_var)

state_circuit(a, params) ==
    LET prep == prepare(0, a.n_var)
        head == times_slice(params, a.n_layers)
        rest == params_slice(params, a.n_layers)
    IN  IF ~reshape_ok(head, a.n_layers, 2)
        THEN [params |-> params, status |-> "reshape_error", tape |-> prep]
        ELSE LET layers == qml_layer(a, a.n_layers, 0, head, rest)
             IN  IF ~layers.ok
                 THEN [params |-> params, status |-> "ansatz_error",
                       tape |-> prep]
                 ELSE [params |-> params, status |-> "ok",
                       tape |-> prep \o layers.ops]

AnsatzNone ==
    [status |-> "none", n_var |-> 0, n_layers |-> 0,
     x_hamiltonian |-> x_mixer(0), param_count |-> 0]

CircuitIdle == [params |-> <<>>, status |-> "idle", tape |-> <<>>]

\* The first entry of a parameter vector of the model.
ParamBases == {0, 1, 7}

\* The flat parameter vectors the circuit procedure is called with: of every
\* length up to one more than the largest count, with entries that all
\* differ (entry x is base + x), so that every position is told apart.
ParamVectors ==
    {[x \in 1..len |-> base + x - 1] :
        len \in 0..(param_count(MaxVar, MaxLayers) + 1), base \in ParamBases}

CallFeatureSelectionAnsatz ==
    /\ ansatz.status = "none"
    /\ \E n_var \in 1..MaxVar, n_layers \in 0..MaxLayers :
           ansatz' = feature_selection_ansatz(n_var, n_layers)
    /\ UNCHANGED <<qubo, circuit, prob, run, axis>>

CallStateCircuit ==
    /\ ansatz.status = "built"
    /\ circuit.status = "idle"
    /\ \E params \in ParamVectors : circuit' = state_circuit(ansatz, params)
    /\ UNCHANGED <<qubo, ansatz, prob, run, axis>>

(***************************************************************************)
(* objective_matrix                                                        *)
(***************************************************************************)
\* np.corrcoef(feature_data, response_data, rowvar=False): the correlation
\* matrix of the k feature columns and the response, the response last. An
\* entry is cov[u, v] / sqrt(cov[u, u] * cov[v, v]), with cov normalised by
\* N - 1; a constant column (and N = 1) gives 0 / 0 = NaN.
corrcoef(feature_data, response_data) ==
    LET N == feature_data.shape[1]
        k == feature_data.shape[2]
        col(v, s) == IF v < k THEN At2(feature_data, s, v)
                     ELSE At1(response_data, s)
        mean(v) == RDiv(RSum([s \in 1..N |-> col(v, s - 1)]), F(N))
        cov(u, v) ==
            RDiv(RSum([s \in 1..N |->
                          RMul(RSub(col(u, s - 1), mean(u)),
                               RSub(col(v, s - 1), mean(v)))]),
                 F(N - 1))
        corr(u, v) == RDiv(cov(u, v), RSqrt(RMul(cov(u, u), cov(v, v))))
    IN  Array(<<k + 1, k + 1>>,
              [i \in 1..((k + 1) * (k + 1)) |->
                  corr((i - 1) \div (k + 1), (i - 1) % (k + 1))])

\* |pre[:-1, :-1]| * (1 - alpha) - alpha * diagflat(|pre[-1, :-1]|)
objective_matrix(feature_data, response_data, alpha) ==
    LET k == feature_data.shape[2]
        pre == corrcoef(feature_data, response_data)
        body(m, n) == RMul(RAbs(At2(pre, m, n)), RSub(F(1), alpha))
        diag(m, n) == IF m = n THEN RAbs(At2(pre, k, m)) ELSE F(0)
    IN  Array(<<k, k>>,
              [i \in 1..(k * k) |->
                  LET m == (i - 1) \div k
                      n == (i - 1) % k
                  IN  RSub(body(m, n), RMul(alpha, diag(m, n)))])

(***************************************************************************)
(* FeatureSelectionProblem                                                 *)
(***************************************************************************)
\* jax.random.split(key): two new keys, each a fixed function of key.
jax_random_split(key) ==
    <<(3 * key + 1) % KeyMod, (5 * key + 2) % KeyMod>>

\* qso.utils.resample_data(X, y, samples, key): a bootstrap of the paired
\* data: `samples` row indices drawn with replacement as a fixed function of
\* key (its base-N digits), the same rows taken from X and from y.
resample_indices(N, samples, key) ==
    [s \in 1..samples |-> (key \div (N ^ (s - 1))) % N]

resample_data(X, y, samples, key) ==
    LET N == X.shape[1]
        k == X.shape[2]
        idx == resample_indices(N, samples, key)
    IN  <<Array(<<samples, k>>,
                [i \in 1..(samples * k) |->
                    At2(X, idx[((i - 1) \div k) + 1], (i - 1) % k)]),
          Array(<<samples>>, [s \in 1..samples |-> At1(y, idx[s])])>>

ProblemNone ==
    [status |-> "none", feature_data |-> Array(<<>>, <<>>),
     response_data |-> Array(<<>>, <<>>), alpha |-> F(0), key |-> 0,
     n |-> 0, k |-> 0, args |-> <<>>, returned |-> <<>>, subkeys |-> <<>>]

\* A constructor that raises leaves no instance: the model keeps the error
\* and the arrays it was called with.
Failed(p, error) ==
    [ProblemNone EXCEPT !.status = error,
                        !.args = <<p.feature_data, p.response_data>>]

\* QSOProblem.__init__(key): the instance holds the key it is given.
QSOProblem_init(p, key) == [p EXCEPT !.key = key]

\* The shape the constructor asks check_ndarray for: (self.n, ).
response_expected_shape_any(n, response_data) == response_data.shape

response_expected_shape(n, response_data) == <<n>>

\* FeatureSelectionProblem.__init__. `debug` is Python's __debug__: without
\* it the assert is skipped and unpacking a shape that is not a pair fails.
FeatureSelectionProblem_init(feature_data, response_data, alpha, key, debug) ==
    LET p0 == [QSOProblem_init(ProblemNone, key) EXCEPT
                   !.feature_data = feature_data,
                   !.response_data = response_data,
                   !.alpha = alpha,
                   !.args = <<feature_data, response_data, alpha, key>>]
    IN  IF debug /\ ndim(feature_data) # 2 THEN Failed(p0, "AssertionError")
        ELSE IF Len(feature_data.shape) # 2 THEN Failed(p0, "ValueError")
        ELSE LET n == feature_data.shape[1]
                 k == feature_data.shape[2]
             IN  IF ~check_ndarray(response_data,
                                   response_expected_shape(n, response_data))
                 THEN Failed(p0, "shape_error")
                 ELSE [p0 EXCEPT !.status = "ready", !.n = n, !.k = k]

\* self.key, key = jax.random.split(self.key): the kept half, the used half.
split_self_key_shared(key) ==
    jax_random_split((prob[1].key + prob[2].key) % KeyMod)

split_self_key(key) == jax_random_split(key)

\* What sample_hamiltonian stores in the instance's data fields: nothing.
kept_data_resampled(p, resampled) == resampled

kept_data(p, resampled) == <<p.feature_data, p.response_data>>

\* sample_hamiltonian: the instance after the call; the Hamiltonian returned
\* and the key handed to resample_data are appended to its record.
sample_hamiltonian(p) ==
    LET halves == split_self_key(p.key)
        key == halves[2]
        resampled == resample_data(p.feature_data, p.response_data, p.n, key)
        objective == objective_matrix(resampled[1], resampled[2], p.alpha)
        result == qubo_hamiltonian(objective)
        data == kept_data(p, resampled)
    IN  [p EXCEPT !.key = halves[1],
                  !.feature_data = data[1],
                  !.response_data = data[2],
                  !.returned = Append(@, result.hamiltonian),
                  !.subkeys = Append(@, key)]

Bin(bits) == [i \in 1..Len(bits) |-> F(bits[i])]

\* The arrays the constructor is called with: 2-D feature data of 2 and 3
\* samples, and feature data that is 1-D and 3-D; responses of 2 and 3
\* entries, and one that is 2-D.
FeatureInputs ==
    {Array(<<2, 1>>, Bin(<<0, 1>>)),
     Array(<<2, 2>>, Bin(<<0, 1, 1, 0>>)),
     Array(<<3, 2>>, Bin(<<0, 0, 1, 0, 1, 1>>)),
     Array(<<2>>, Bin(<<0, 1>>)),
     Array(<<2, 1, 1>>, Bin(<<0, 1>>))}

ResponseInputs ==
    {Array(<<2>>, Bin(<<0, 1>>)),
     Array(<<3>>, Bin(<<0, 1, 1>>)),
     Array(<<2, 1>>, Bin(<<0, 1>>))}

AlphaInputs == {Rat(0, 1), Rat(1, 2), Rat(1, 1)}

\* Instance 1 is constructed from any arguments; instance 2 is constructed
\* anew from the arguments instance 1 was constructed with.
Instances == {1, 2}

Construct ==
    /\ prob[1].status = "none"
    /\ \E feature_data \in FeatureInputs, response_data \in ResponseInputs,
          alpha \in AlphaInputs, key \in 0..MaxSeed, debug \in BOOLEAN :
           prob' = [prob EXCEPT ![1] =
                        FeatureSelectionProblem_init(feature_data,
                            response_data, alpha, key, debug)]
    /\ UNCHANGED <<qubo, ansatz, circuit, run, axis>>

Reconstruct ==
    /\ prob[1].status = "ready"
    /\ prob[2].status = "none"
    /\ \E debug \in BOOLEAN :
           prob' = [prob EXCEPT ![2] =
                        FeatureSelectionProblem_init(prob[1].args[1],
                            prob[1].args[2], prob[1].args[3], prob[1].args[4],
                            debug)]
    /\ UNCHANGED <<qubo, ansatz, circuit, run, axis>>

SampleHamiltonian(i) ==
    /\ prob[i].status = "ready"
    /\ Len(prob[i].returned) < MaxCalls
    /\ prob' = [prob EXCEPT ![i] = sample_hamiltonian(prob[i])]
    /\ UNCHANGED <<qubo, ansatz, circuit, run, axis>>

(***************************************************************************)
(* ast.literal_eval, over strings of the characters of Alphabet            *)
(***************************************************************************)
Alphabet == {"1", "[", "]", ",", "a", "'"}

\* Python values: an int (n), a str (its characters, s), a list or a tuple
\* (its items).
Num(n) == [t |-> "num", n |-> n, s |-> <<>>, items |-> <<>>]

Str(chars) == [t |-> "str", n |-> 0, s |-> chars, items |-> <<>>]

List(items) == [t |-> "list", n |-> 0, s |-> <<>>, items |-> items]

Tuple(items) == [t |-> "tuple", n |-> 0, s |-> <<>>, items |-> items]

Parsed(val, pos) == [ok |-> TRUE, val |-> val, pos |-> pos]

Malformed == [ok |-> FALSE, val |-> Num(0), pos |-> 0]

Least(S) == CHOOSE x \in S : \A y \in S : x <= y

\* A decimal literal: the longest run of digits from position i.
literal_number(s, i) ==
    LET stops == {x \in i..Len(s) : s[x] # "1"}
        end == IF stops = {} THEN Len(s) + 1 ELSE Least(stops)
    IN  Parsed(Num((10 ^ (end - i) - 1) \div 9), end)

\* One string literal from the quote at position i: triple-quoted when three
\* quotes open it (it runs to the next three quotes), and otherwise running to
\* the next quote.
literal_string(s, i) ==
    LET isq(x) == x <= Len(s) /\ s[x] = "'"
    IN  IF isq(i + 1) /\ isq(i + 2)
        THEN LET closes == {x \in (i + 3)..Len(s) :
                                isq(x) /\ isq(x + 1) /\ isq(x + 2)}
             IN  IF closes = {} THEN Malformed
                 ELSE Parsed(SubSeq(s, i + 3, Least(closes) - 1),
                             Least(closes) + 3)
        ELSE LET closes == {x \in (i + 1)..Len(s) : isq(x)}
             IN  IF closes = {} THEN Malformed
                 ELSE Parsed(SubSeq(s, i + 1, Least(closes) - 1),
                             Least(closes) + 1)

\* Adjacent string literals are one string.
RECURSIVE literal_strings(_, _, _)
literal_strings(s, i, acc) ==
    LET one == literal_string(s, i)
    IN  IF ~one.ok THEN Malformed
        ELSE IF one.pos <= Len(s) /\ s[one.pos] = "'"
             THEN literal_strings(s, one.pos, acc \o one.val)
             ELSE Parsed(Str(acc \o one.val), one.pos)

RECURSIVE literal_expr(_, _)
RECURSIVE literal_items(_, _, _)
\* The elements of a list display from position i, up to its "]".
literal_items(s, i, acc) ==
    LET e == literal_expr(s, i)
    IN  IF ~e.ok \/ e.pos > Len(s) THEN Malformed
        ELSE IF s[e.pos] = "]"
             THEN Parsed(List(Append(acc, e.val)), e.pos + 1)
        ELSE IF s[e.pos] = ","
             THEN IF e.pos + 1 <= Len(s) /\ s[e.pos + 1] = "]"
                  THEN Parsed(List(Append(acc, e.val)), e.pos + 2)
                  ELSE literal_items(s, e.pos + 1, Append(acc, e.val))
        ELSE Malformed

\* A number, a string or a list display at position i. A name is no literal.
literal_expr(s, i) ==
    IF i > Len(s) THEN Malformed
    ELSE IF s[i] = "1" THEN literal_number(s, i)
    ELSE IF s[i] = "'" THEN literal_strings(s, i, <<>>)
    ELSE IF s[i] = "["
         THEN IF i + 1 <= Len(s) /\ s[i + 1] = "]"
              THEN Parsed(List(<<>>), i + 2)
              ELSE literal_items(s, i + 1, <<>>)
    ELSE Malformed

\* The rest of an unparenthesised tuple, from position i (after a comma).
RECURSIVE literal_tuple(_, _, _)
literal_tuple(s, i, acc) ==
    IF i > Len(s) THEN Parsed(Tuple(acc), i)
    ELSE LET e == literal_expr(s, i)
         IN  IF ~e.ok THEN Malformed
             ELSE IF e.pos > Len(s)
                  THEN Parsed(Tuple(Append(acc, e.val)), e.pos)
             ELSE IF s[e.pos] = ","
                  THEN literal_tuple(s, e.pos + 1, Append(acc, e.val))
             ELSE Malformed

\* literal_eval(s): the value of the whole string, or a failure (ValueError
\* or SyntaxError).
literal_eval(s) ==
    LET e == literal_expr(s, 1)
    IN  IF ~e.ok THEN Malformed
        ELSE IF e.pos > Len(s) THEN e
        ELSE IF s[e.pos] = "," THEN literal_tuple(s, e.pos + 1, <<e.val>>)
        ELSE Malformed

(***************************************************************************)
(* ExperimentRun                                                           *)
(***************************************************************************)
\* isinstance(iteration.params, str)
is_str(params) == params.t = "str"

\* Which params the constructor hands to literal_eval: the strings.
decodes_never(params) == FALSE

decodes(params) == is_str(params)

\* The loop over self.iterations from iteration i (1-based): a string params
\* is replaced by its literal value; the first string that is no literal
\* raises, and the constructor with it.
RECURSIVE decode_iterations(_, _)
decode_iterations(iterations, i) ==
    IF i > Len(iterations) THEN [ok |-> TRUE, iterations |-> iterations]
    ELSE IF decodes(iterations[i].params)
         THEN LET lit == literal_eval(iterations[i].params.s)
              IN  IF ~lit.ok THEN [ok |-> FALSE, iterations |-> <<>>]
                  ELSE decode_iterations(
                           [iterations EXCEPT ![i].params = lit.val], i + 1)
         ELSE decode_iterations(iterations, i + 1)

\* ExperimentRun.__init__: every key of the JSON object becomes an attribute,
\* the iterations as a list of namespaces; then the params are decoded.
ExperimentRun_init(data) ==
    LET decoded == decode_iterations(data.iterations, 1)
    IN  IF ~decoded.ok
        THEN [status |-> "decode_error", data |-> data, iterations |-> <<>>,
              run_number |-> 0, log_file |-> ""]
        ELSE [status |-> "ok", data |-> data,
              iterations |-> decoded.iterations,
              run_number |-> data.run_number, log_file |-> data.log_file]

\* The integers of a jax array are 32 bits wide: sums wrap around.
Int32Max == 2147483647

int32_add(a, b) ==
    IF b > 0 /\ a > Int32Max - b THEN ((a - Int32Max) + (b - Int32Max)) - 2
    ELSE IF b < 0 /\ a < (-Int32Max - 1) - b
         THEN ((a + Int32Max) + (b + Int32Max)) + 2
    ELSE a + b

\* np.cumsum of an integer array.
RECURSIVE cumsum_from(_, _, _)
cumsum_from(xs, i, total) ==
    IF i > Len(xs) THEN <<>>
    ELSE <<int32_add(total, xs[i])>>
         \o cumsum_from(xs, i + 1, int32_add(total, xs[i]))

cumsum(xs) == cumsum_from(xs, 1, 0)

\* The message of the ValueError: f'Invalid axis type, got {axis_type}'.
axis_error_message(axis_type) == <<"Invalid axis type, got ", axis_type>>

\* The cases of the match statement that return an axis.
axis_case_shots_only(axis_type) ==
    IF axis_type = "shots" THEN "shots" ELSE "_"

axis_case(axis_type) ==
    IF axis_type = "iterations" THEN "iterations"
    ELSE IF axis_type = "shots" THEN "shots"
    ELSE "_"

get_x_axis(r, axis_type) ==
    LET which == axis_case(axis_type)
    IN  IF which = "iterations"
        THEN [axis_type |-> axis_type, status |-> "ok",
              value |-> [i \in 1..Len(r.iterations) |-> i - 1],
              message |-> <<>>]
        ELSE IF which = "shots"
        THEN [axis_type |-> axis_type, status |-> "ok",
              value |-> cumsum([i \in 1..Len(r.iterations) |->
                                   r.iterations[i].samples
                                   * r.iterations[i].shots_per_hamiltonians]),
              message |-> <<>>]
        ELSE [axis_type |-> axis_type, status |-> "ValueError",
              value |-> <<>>, message |-> axis_error_message(axis_type)]

RunNone ==
    [status |-> "none", data |-> <<>>, iterations |-> <<>>,
     run_number |-> 0, log_file |-> ""]

AxisIdle ==
    [axis_type |-> "", status |-> "idle", value |-> <<>>, message |-> <<>>]

Iteration(params, samples, shots) ==
    [cost |-> 0, params |-> params, samples |-> samples,
     shots_per_hamiltonians |-> shots]

RunLog(iterations) ==
    [run_number |-> 1, log_file |-> "run.json", iterations |-> iterations]

SampleValues == {1, 3, 32768}

ShotValues == {1, 32768}

\* Run logs whose iterations differ in samples and shots_per_hamiltonians.
BudgetLogs ==
    UNION {{RunLog(its) :
                its \in [1..n -> {Iteration(List(<<Num(1)>>), sa, sh) :
                                     sa \in SampleValues, sh \in ShotValues}]} :
           n \in 0..MaxIter}

\* Every params a one-iteration log can hold: a number, a list, and every
\* string of up to MaxStrLen characters.
ParamsJson ==
    {Num(1), List(<<Num(1), Num(1)>>)}
    \cup UNION {{Str(chars) : chars \in [1..n -> Alphabet]} : n \in 0..MaxStrLen}

\* The params of the longer logs: a list, a string that is a list literal, a
\* string that is a string literal, a string that is no literal.
ParamsFew ==
    {List(<<Num(1)>>), Str(<<"[", "1", "]">>), Str(<<"'", "a", "'">>),
     Str(<<"a">>)}

ParamsLogs ==
    {RunLog(<<Iteration(params, 1, 1)>>) : params \in ParamsJson}
    \cup UNION {{RunLog(its) :
                    its \in [1..n -> {Iteration(params, 1, 1) :
                                         params \in ParamsFew}]} :
               n \in 2..MaxIter}

LoadRun ==
    /\ run.status = "none"
    /\ \E data \in BudgetLogs \cup ParamsLogs : run' = ExperimentRun_init(data)
    /\ UNCHANGED <<qubo, ansatz, circuit, prob, axis>>

AxisTypes == {"iterations", "shots", "cost", "Shots"}

CallGetXAxis ==
    /\ run.status = "ok"
    /\ \E axis_type \in AxisTypes : axis' = get_x_axis(run, axis_type)
    /\ UNCHANGED <<qubo, ansatz, circuit, prob, run>>

(***************************************************************************)
(* Specifications: one per component, the others idle.                     *)
(***************************************************************************)
Idle ==
    /\ qubo = QuboIdle
    /\ ansatz = AnsatzNone
    /\ circuit = CircuitIdle
    /\ prob = [i \in Instances |-> ProblemNone]
    /\ run = RunNone
    /\ axis = AxisIdle

Init == Idle

NextQubo == CallQuboHamiltonian

SpecQubo == Init /\ [][NextQubo]_vars

NextAnsatz == CallFeatureSelectionAnsatz \/ CallStateCircuit

SpecAnsatz == Init /\ [][NextAnsatz]_vars

NextProblem ==
    Construct \/ Reconstruct \/ \E i \in Instances : SampleHamiltonian(i)

SpecProblem == Init /\ [][NextProblem]_vars

NextRun == LoadRun \/ CallGetXAxis

SpecRun == Init /\ [][NextRun]_vars

Next == NextQubo \/ NextAnsatz \/ NextProblem \/ NextRun

Spec == Init /\ [][Next]_vars

(***************************************************************************)
(* Properties                                                              *)
(***************************************************************************)
Positions(seq, P(_)) == {i \in 1..Len(seq) : P(seq[i])}

\* C1: for every square n x n objective, qubo_hamiltonian emits exactly n
\* linear terms, one PauliZ(m) with coefficient -colsum_m / 2 for every m, and
\* exactly n(n - 1) quadratic terms, one PauliZ(m) @ PauliZ(k) with
\* coefficient objective[m, k] / 4 for every ordered pair m # k.
C1_EmitsEveryTerm ==
    qubo.status = "ok" =>
        LET obj == qubo.objective
            n == obj.shape[1]
            e == qubo.emitted
            colsum(m) == RSum([r \in 1..n |-> At2(obj, r - 1, m)])
            linear(m) == Positions(e, LAMBDA x : x.term = <<m>>)
            quadratic(m, k) == Positions(e, LAMBDA x : x.term = <<m, k>>)
        IN  /\ Cardinality(Positions(e, LAMBDA x : Len(x.term) = 1)) = n
            /\ Cardinality(Positions(e, LAMBDA x : Len(x.term) = 2))
                   = n * (n - 1)
            /\ \A m \in 0..(n - 1) :
                   /\ Cardinality(linear(m)) = 1
                   /\ \A i \in linear(m) :
                          e[i].coeff = RDiv(RNeg(colsum(m)), F(2))
            /\ \A m, k \in 0..(n - 1) :
                   m # k =>
                       /\ Cardinality(quadratic(m, k)) = 1
                       /\ \A i \in quadratic(m, k) :
                              e[i].coeff = RDiv(At2(obj, m, k), F(4))

\* C2: qubo_hamiltonian called with a 2-D objective whose row count differs
\* from its column count fails with a shape error and returns no Hamiltonian.
C2_NonSquareFails ==
    (qubo.status # "idle"
        /\ qubo.objective.shape[1] # qubo.objective.shape[2])
    => (qubo.status = "shape_error" /\ qubo.emitted = <<>>)

C2_Witness ==
    /\ qubo.status = "shape_error"
    /\ qubo.objective.shape = <<1, 2>>

\* C3: the builder reports a parameter count of exactly 2L + 2k - 1, and the
\* circuit procedure fails on a parameter vector of any other length.
C3_WrongLengthFails ==
    /\ ansatz.status = "built" =>
           ansatz.param_count = 2 * ansatz.n_layers + 2 * ansatz.n_var - 1
    /\ (circuit.status # "idle"
           /\ Len(circuit.params)
                  # 2 * ansatz.n_layers + 2 * ansatz.n_var - 1)
       => circuit.status # "ok"

Ready(i) == prob[i].status = "ready"

HasNaN(hamiltonian) == \E t \in hamiltonian : t[2].nan

Different(h1, h2) == h1 # h2 \/ HasNaN(h1) \/ HasNaN(h2)

HamiltonianOfResample(i, key) ==
    LET resampled == resample_data(prob[i].args[1], prob[i].args[2],
                                   prob[i].n, key)
    IN  qubo_hamiltonian(objective_matrix(resampled[1], resampled[2],
                                          prob[i].alpha)).hamiltonian

Limb == 2 ^ 16

Big(x) == <<x \div Limb, x % Limb>>

BigAdd(a, b) == <<a[1] + b[1] + ((a[2] + b[2]) \div Limb), (a[2] + b[2]) % Limb>>

RECURSIVE ExactShots(_, _)
ExactShots(iterations, i) ==
    IF i = 0 THEN Big(0)
    ELSE BigAdd(ExactShots(iterations, i - 1),
                Big(iterations[i].samples
                    * iterations[i].shots_per_hamiltonians))

\* C6: get_x_axis('shots') returns one value per iteration, value i the sum
\* over iterations 0..i of samples * shots_per_hamiltonians; the sequence is
\* non-decreasing and its last value is the sum over all iterations.
C6_CumulativeShots ==
    (axis.status # "idle" /\ axis.axis_type = "shots") =>
        /\ axis.status = "ok"
        /\ Len(axis.value) = Len(run.iterations)
        /\ \A i \in 1..Len(axis.value) :
               Big(axis.value[i]) = ExactShots(run.iterations, i)
        /\ \A i \in 1..(Len(axis.value) - 1) :
               axis.value[i] <= axis.value[i + 1]

Raw(i) == run.data.iterations[i].params

Decoded(i) == run.iterations[i].params

SomeRawIsNoLiteral ==
    \E i \in 1..Len(run.data.iterations) :
        is_str(Raw(i)) /\ ~literal_eval(Raw(i).s).ok

\* What the constructor does with params, apart from the type of the result:
\* it fails exactly when some string params is no literal, and otherwise
\* every string params is replaced by its literal value and everything else
\* is as loaded.
DecodesParams ==
    /\ run.status = "decode_error" <=> (run.status # "none" /\ SomeRawIsNoLiteral)
    /\ run.status = "ok" =>
           /\ Len(run.iterations) = Len(run.data.iterations)
           /\ \A i \in 1..Len(run.iterations) :
                  /\ run.iterations[i]
                         = [run.data.iterations[i] EXCEPT !.params = Decoded(i)]
                  /\ is_str(Raw(i)) => Decoded(i) = literal_eval(Raw(i).s).val
                  /\ ~is_str(Raw(i)) => Decoded(i) = Raw(i)
                  /\ Raw(i) = Str(<<"[", "1", "]">>)
                         => Decoded(i) = List(<<Num(1)>>)

\* C7 as stated: the above, and no constructed run holds a string params.
C7_NoStringParams ==
    /\ DecodesParams
    /\ run.status = "ok" =>
           \A i \in 1..Len(run.iterations) : ~is_str(Decoded(i))

\* C7 as amended: the above, and a constructed run holds a string params
\* only where the text loaded was itself a string literal.
C7_DecodesStrings ==
    /\ DecodesParams
    /\ run.status = "ok" =>
           \A i \in 1..Len(run.iterations) :
               is_str(Decoded(i)) =>
                   /\ is_str(Raw(i))
                   /\ Raw(i).s # Decoded(i).s
                   /\ Raw(i).s[1] = "'"

C7_Witness ==
    /\ run.status = "ok"
    /\ Len(run.iterations) = 2
    /\ Raw(1) = Str(<<"[", "1", "]">>) /\ Decoded(1) = List(<<Num(1)>>)
    /\ Raw(2) = Str(<<"'", "a", "'">>) /\ Decoded(2) = Str(<<"a">>)

\* C8: get_x_axis fails with the invalid-argument error, whose message names
\* the value, for every axis type other than 'iterations' and 'shots', and
\* never for those two.
C8_AxisTypeError ==
    axis.status # "idle" =>
        IF axis.axis_type \in {"iterations", "shots"}
        THEN axis.status # "ValueError"
        ELSE /\ axis.status = "ValueError"
             /\ axis.message[Len(axis.message)] = axis.axis_type

C8_Witness ==
    /\ axis.status = "ValueError"
    /\ axis.axis_type = "cost"
    /\ run.status = "ok"

\* An instance holds the arrays it was constructed with: 2-D feature_data of
\* shape (n, k) and a response_data of exactly n entries.
C9_ShapeInvariant ==
    \A i \in Instances :
        Ready(i) =>
            /\ prob[i].feature_data = prob[i].args[1]
            /\ prob[i].response_data = prob[i].args[2]
            /\ ndim(prob[i].feature_data) = 2
            /\ prob[i].feature_data.shape = <<prob[i].n, prob[i].k>>
            /\ prob[i].response_data.shape = <<prob[i].n>>

\* No step on an instance changes its data, alpha, n or k.
C9_SampleChangesOnlyKey ==
    \A i \in Instances :
        Ready(i) =>
            /\ prob'[i].feature_data = prob[i].feature_data
            /\ prob'[i].response_data = prob[i].response_data
            /\ prob'[i].alpha = prob[i].alpha
            /\ prob'[i].n = prob[i].n
            /\ prob'[i].k = prob[i].k

\* C9: an instance always holds 2-D feature_data of shape (n, k) and a
\* response_data of exactly n entries, the arrays it was constructed with
\* (so construction fails for feature data that is not 2-D and for a
\* response of another length), and sample_hamiltonian changes only the key.
C9_DataInvariant == []C9_ShapeInvariant /\ [][C9_SampleChangesOnlyKey]_vars

C9_Witness ==
    /\ Ready(1)
    /\ Len(prob[1].returned) = 2
    /\ prob[1].feature_data.shape = <<3, 2>>
    /\ prob[1].key # prob[1].args[4]

\* C10: for a parameter vector p of length 2L + 2k - 1 the circuit applies,
\* after the preparation, layers 0..L-1 in order, layer i the problem
\* evolution with time p[2i] and then the mixer with time p[2i + 1], every
\* problem Hamiltonian built from the 2k - 1 entries p[2L:].
C10_LayerLayout ==
    (circuit.status = "ok"
        /\ Len(circuit.params) = 2 * ansatz.n_layers + 2 * ansatz.n_var - 1)
    => LET L == ansatz.n_layers
           k == ansatz.n_var
           p == circuit.params
           t == circuit.tape
           rest == [x \in 1..(2 * k - 1) |-> p[2 * L + x]]
       IN  /\ Len(t) = 2 * k + 2 * L
           /\ \A i \in 0..(L - 1) :
                  /\ t[2 * k + 2 * i + 1].op = "ApproxTimeEvolution"
                  /\ t[2 * k + 2 * i + 1].time = p[2 * i + 1]
                  /\ t[2 * k + 2 * i + 1].hamiltonian.params = rest
                  /\ t[2 * k + 2 * i + 2].op = "CommutingEvolution"
                  /\ t[2 * k + 2 * i + 2].time = p[2 * i + 2]

C10_Witness ==
    /\ circuit.status = "ok"
    /\ ansatz.n_layers = 2 /\ ansatz.n_var = 2
    /\ circuit.params = <<0, 1, 2, 3, 4, 5, 6>>

====
